---- MODULE Spec2Model ----
(***************************************************************************)
(* Model of the gearfalcon-frontend session layer:                        *)
(*   - AuthProvider (shared/hooks/useAuth.tsx): the in-memory access      *)
(*     token kept in React state, the context values derived from it at   *)
(*     render time, and the getter/setter pair it registers with the      *)
(*     Axios client from an effect;                                       *)
(*   - axiosClient.ts: the request interceptor that attaches the token,   *)
(*     and the response interceptor that refreshes the token once on a    *)
(*     401 and queues the 401s that arrive while the refresh is pending;  *)
(*   - useLogin.handleLogin and AuthProvider.logout, the other writers of *)
(*     the token.                                                         *)
(*                                                                         *)
(* The model also covers lib/validators/passwordValidator.ts: the password  *)
(* policy evaluator validatePasswordStrength (both declarations the file   *)
(* holds) and the password generator generateSecurePassword.               *)
(*                                                                         *)
(* Two pieces of the pages are modelled as well: the verification-code     *)
(* input of verify-email/page.tsx with its submit and resend handlers, and *)
(* the hooks of usePasswordValidation.tsx behind the registration forms    *)
(* (the debounced validation, the confirmation, canSubmit).                *)
(*                                                                         *)
(* One step of the session model is one task of the browser's event loop together *)
(* with the microtasks it schedules: a caller handing a request to http,  *)
(* a network response being dispatched to the interceptors, the promise   *)
(* of AuthService.refresh() settling, a React render pass.                *)
(***************************************************************************)
EXTENDS Integers, Sequences, FiniteSets, TLC

\* ---------------------------------------------------------------- bounds
MaxReq == 2        \* number of requests callers hand to http
MaxToken == 2      \* number of access tokens the backend issues (logins and refreshes)

MaxParts == 2      \* pieces a password passed to the validator is made of
MaxRequested == 6  \* longest password length asked of the generator
RandomGrain == 11  \* values the random source can return, k / RandomGrain
MaxTyped == 5      \* longest value the verification-code input is changed to
MaxVerify == 2     \* calls of AuthService.verifyEmail
MaxPieces == 3     \* longest password typed into the registration form, in pieces

Reqs == 1..MaxReq
Tokens == 1..MaxToken
RefreshIds == 1..(2 * MaxReq)   \* names of the calls to AuthService.refresh

\* ------------------------------------------------------------- constants
NoToken == 0            \* null: no access token / no Authorization header
Unauthorized == 401     \* the status the response interceptor reacts to
Ok == 200
ServerError == 500      \* stands for every error status other than 401
NoResponse == 0         \* network-level error: error.response is undefined
ErrorStatuses == {Unauthorized, ServerError, NoResponse}

\* what the promise returned by http(...) has settled with
Pending == -1           \* not settled yet
RefreshError == -2      \* rejected with the error thrown by AuthService.refresh
NoTokenError == -3      \* rejected with Error("No token available")

VARIABLES
    \* --- AuthProvider (useAuth.tsx)
    accessTokenState,   \* the React state cell written by setAccessTokenState
    accessToken,        \* `accessToken` as seen by the committed render
    isAuthenticated,    \* context value computed by that render
    \* --- the backend's token endpoints
    tokensIssued,       \* access tokens issued so far; the next one is a new token
    \* --- axiosClient.ts module state
    getAccessToken,     \* what the registered getter closure returns
    isRefreshing,
    pendingQueue,       \* sequence of requests whose resolve/reject pair is queued
    \* --- the remote refresh endpoint, as seen from the client
    refreshInFlight,    \* calls to AuthService.refresh() not settled yet
    refreshCalls,       \* calls to AuthService.refresh() made so far
    refreshStatus,      \* per call: "none", "pending", "ok", "fail"
    refreshToken,       \* per call: the access_token it returned
    \* --- per request (the config object and the caller's promise)
    phase,              \* "unsent","sent","queued","awaiting","resolved","rejected"
    retry,              \* originalRequest._retry
    authHeader,         \* token in the Authorization header, NoToken if none
    sends,              \* times the request left the request interceptor
    received,           \* status of the last response (Pending if none yet)
    outcome,            \* what the caller's promise settled with
    \* --- per request, history for the properties
    epoch,              \* refreshCalls when the caller issued the request
    issuedRefreshing,   \* isRefreshing when the caller issued the request
                        \* (both kept until the first answer, and beyond it
                        \* only if that answer is a 401 the pipeline takes up)
    cycle,              \* refresh call that handled its first 401 (0 if none)
    role,               \* "none", "trigger" or "queued" in that refresh cycle
    settledAt,          \* refresh calls already settled when its 401 arrived
    resolveCalls,       \* times the queued resolve continuation was called
    rejectCalls,        \* times the queued reject continuation was called
    handedToken,        \* token the response interceptor replayed it with
    \* --- history of the user's session
    loggedOut,          \* logout() ran and no login has succeeded since
    \* --- a call of validatePasswordStrength
    typed,              \* the password argument, a sequence of characters
    policy,             \* the config: DEFAULT_PASSWORD_REQUIREMENTS merged with the options
    definition,         \* which declaration ran: "none", "first", "second"
    result,             \* the ValidationResult it returned
    \* --- a call of generateSecurePassword
    requested,          \* the length the caller asks for
    seed,               \* the random source
    generator,          \* which declaration ran: "none", "first", "second"
    chosen,             \* the characters it picked, before the shuffle
    generated,          \* the string it returned
    \* --- VerifyEmailPage (verify-email/page.tsx)
    code,               \* the `code` state, a sequence of characters
    codeError,          \* the `error` state
    codeMessage,        \* the `message` state
    isLoading,
    isResending,
    verifyCalls,        \* calls of AuthService.verifyEmail made so far
    verifyPending,      \* those not settled yet
    verifyArg,          \* the code argument of the last one
    submitted,          \* the handler that ran last was handleVerification
    \* --- usePasswordForm (usePasswordValidation.tsx)
    formPassword,       \* the `password` argument of the last render
    confirmPassword,    \* the `confirmPassword` argument of the last render
    userType,           \* the `options` argument: "customer" or "admin"
    validation,         \* state of usePasswordValidation (NoResult for null)
    isValidating,       \* state of usePasswordValidation
    timeoutId,          \* the pending 300 ms timer and the password it closes over
    confirmationValidation, \* state of usePasswordConfirmation: its isValid
    effects             \* effects of the last render not run yet: "none",
                        \* "confirmation" or "all"

tokenVars == <<accessTokenState, accessToken, isAuthenticated, getAccessToken>>
backendVars == <<tokensIssued>>
pipeVars == <<isRefreshing, pendingQueue, refreshInFlight, refreshCalls, refreshStatus, refreshToken>>
reqVars == <<phase, retry, authHeader, sends, received, outcome>>
histVars == <<epoch, issuedRefreshing, cycle, role, settledAt, resolveCalls, rejectCalls, handedToken>>
sessionVars == <<tokenVars, backendVars, pipeVars, reqVars, histVars, loggedOut>>
validatorVars == <<typed, policy, definition, result>>
generatorVars == <<requested, seed, generator, chosen, generated>>
pageVars == <<code, codeError, codeMessage, isLoading, isResending,
              verifyCalls, verifyPending, verifyArg, submitted>>
formVars == <<formPassword, confirmPassword, userType, validation, isValidating,
              timeoutId, confirmationValidation, effects>>
libVars == <<validatorVars, generatorVars, pageVars, formVars>>
vars == <<sessionVars, validatorVars, generatorVars, pageVars, formVars>>

\* ------------------------------------------------------------------ Init
\* The state after the module is loaded and AuthProvider has mounted: the
\* state cell holds null and the first effect has registered the getter.
SessionInit ==
    /\ accessTokenState = NoToken
    /\ accessToken = NoToken
    /\ isAuthenticated = FALSE
    /\ tokensIssued = 0
    /\ getAccessToken = NoToken
    /\ isRefreshing = FALSE
    /\ pendingQueue = <<>>
    /\ refreshInFlight = 0
    /\ refreshCalls = 0
    /\ refreshStatus = [c \in RefreshIds |-> "none"]
    /\ refreshToken = [c \in RefreshIds |-> NoToken]
    /\ phase = [r \in Reqs |-> "unsent"]
    /\ retry = [r \in Reqs |-> FALSE]
    /\ authHeader = [r \in Reqs |-> NoToken]
    /\ sends = [r \in Reqs |-> 0]
    /\ received = [r \in Reqs |-> Pending]
    /\ outcome = [r \in Reqs |-> Pending]
    /\ epoch = [r \in Reqs |-> 0]
    /\ issuedRefreshing = [r \in Reqs |-> FALSE]
    /\ cycle = [r \in Reqs |-> 0]
    /\ role = [r \in Reqs |-> "none"]
    /\ settledAt = [r \in Reqs |-> 0]
    /\ resolveCalls = [r \in Reqs |-> 0]
    /\ rejectCalls = [r \in Reqs |-> 0]
    /\ handedToken = [r \in Reqs |-> NoToken]
    /\ loggedOut = FALSE

\* ------------------------------------------------------- AuthProvider
\* setAccessTokenState(t): React queues the new state; the render that
\* shows it runs in a later task.
setAccessToken(t) ==
    accessTokenState' = t

\* Variant: a render that raises isAuthenticated but never lowers it.
Render_NeverLowered ==
    /\ accessToken # accessTokenState
    /\ accessToken' = accessTokenState
    /\ isAuthenticated' = (isAuthenticated \/ accessTokenState # NoToken)
    /\ getAccessToken' = accessTokenState
    /\ UNCHANGED <<accessTokenState, backendVars, pipeVars, reqVars, histVars>>
    /\ UNCHANGED loggedOut
    /\ UNCHANGED libVars

\* A render pass of AuthProvider after the state changed, with its effect:
\* the context value is recomputed and registerTokenAccess installs a getter
\* closed over the accessToken of this render.
Render ==
    /\ accessToken # accessTokenState
    /\ accessToken' = accessTokenState
    /\ isAuthenticated' = (accessTokenState # NoToken)
    /\ getAccessToken' = accessTokenState
    /\ UNCHANGED <<accessTokenState, backendVars, pipeVars, reqVars, histVars>>
    /\ UNCHANGED loggedOut
    /\ UNCHANGED libVars

logout ==
    /\ setAccessToken(NoToken)
    /\ loggedOut' = TRUE
    /\ UNCHANGED <<accessToken, isAuthenticated, getAccessToken>>
    /\ UNCHANGED <<backendVars, pipeVars, reqVars, histVars>>
    /\ UNCHANGED libVars

\* The token a successful login or refresh returns next: a non-empty string
\* (the endpoints' response shape), and never one the backend handed out
\* before.
NextToken ==
    tokensIssued + 1

\* useLogin.handleLogin, from the point where AuthService.login settles:
\* with a token (ok), which is stored, or with an error, which only sets the
\* hook's own `error` and `isLoading` display state (not part of the model).
handleLogin(ok) ==
    /\ IF ok
         THEN /\ NextToken \in Tokens
              /\ tokensIssued' = NextToken
              /\ setAccessToken(NextToken)
              /\ loggedOut' = FALSE
         ELSE UNCHANGED <<accessTokenState, tokensIssued, loggedOut>>
    /\ UNCHANGED <<accessToken, isAuthenticated, getAccessToken>>
    /\ UNCHANGED <<pipeVars, reqVars, histVars>>
    /\ UNCHANGED libVars

\* ------------------------------------------------- axiosClient.ts
\* Request interceptor: a truthy token from the getter overwrites the
\* Authorization header; otherwise the config keeps the header it came with.
RequestInterceptor(header) ==
    IF getAccessToken # NoToken THEN getAccessToken ELSE header

\* Variants of the 401 test: one that forgets the _retry flag, one that
\* forgets the status.
ShouldRefresh_IgnoreRetry(status, r) ==
    status = Unauthorized

ShouldRefresh_AnyError(status, r) ==
    ~retry[r]

\* `error.response?.status !== 401 || originalRequest._retry` negated.
ShouldRefresh(status, r) ==
    status = Unauthorized /\ ~retry[r]

\* `originalRequest._retry = true`
MarkRetried(r) ==
    [retry EXCEPT ![r] = TRUE]

\* Variants: the handler never looks at isRefreshing; the handler queues
\* every first 401.
AlreadyRefreshing_Never ==
    FALSE

AlreadyRefreshing_Always ==
    TRUE

\* `if (isRefreshing)`: the 401 joins the refresh that is already pending.
AlreadyRefreshing ==
    isRefreshing

\* How often request q has a resolve/reject pair in pendingQueue.
Occurrences(q) ==
    Cardinality({i \in 1..Len(pendingQueue) : pendingQueue[i] = q})

\* Variants of processQueue: one that resolves every entry, one that decides
\* on the token alone, one that leaves the entries in the queue.
processQueue_AlwaysResolve(error, token) ==
    [verdict |-> "resolve", queue |-> <<>>]

processQueue_IgnoreError(error, token) ==
    [verdict |-> IF token # NoToken THEN "resolve" ELSE "rejectNoToken",
     queue |-> <<>>]

processQueue_KeepQueue(error, token) ==
    [verdict |-> IF error THEN "reject"
                 ELSE IF token # NoToken THEN "resolve"
                 ELSE "rejectNoToken",
     queue |-> pendingQueue]

\* processQueue(error, token): every entry gets the same verdict, then the
\* queue is replaced by the empty array.
processQueue(error, token) ==
    [verdict |-> IF error THEN "reject"
                 ELSE IF token # NoToken THEN "resolve"
                 ELSE "rejectNoToken",
     queue |-> <<>>]

\* Variant: the flag is not raised when the refresh starts.
StartIsRefreshing_Forgotten ==
    isRefreshing

\* `isRefreshing = true;` before the refresh call
StartIsRefreshing ==
    TRUE

\* Variant: the flag is left raised when the handler finishes.
FinallyIsRefreshing_StaysRaised ==
    TRUE

\* `finally { isRefreshing = false; }`
FinallyIsRefreshing ==
    FALSE

\* A caller hands request r to http: the request interceptor runs and the
\* request goes to the network.  Requests are issued in index order.
Issue(r) ==
    /\ phase[r] = "unsent"
    /\ \A p \in Reqs : p < r => phase[p] # "unsent"
    /\ phase' = [phase EXCEPT ![r] = "sent"]
    /\ authHeader' = [authHeader EXCEPT ![r] = RequestInterceptor(NoToken)]
    /\ sends' = [sends EXCEPT ![r] = @ + 1]
    /\ epoch' = [epoch EXCEPT ![r] = refreshCalls]
    /\ issuedRefreshing' = [issuedRefreshing EXCEPT ![r] = isRefreshing]
    /\ UNCHANGED <<retry, received, outcome>>
    /\ UNCHANGED <<cycle, role, settledAt, resolveCalls, rejectCalls, handedToken>>
    /\ UNCHANGED <<tokenVars, backendVars, pipeVars>>
    /\ UNCHANGED loggedOut
    /\ UNCHANGED libVars

\* Response interceptor, fulfilled branch: `(response) => response`.
OnFulfilled(r) ==
    /\ phase[r] = "sent"
    /\ phase' = [phase EXCEPT ![r] = "resolved"]
    /\ received' = [received EXCEPT ![r] = Ok]
    /\ outcome' = [outcome EXCEPT ![r] = Ok]
    /\ epoch' = [epoch EXCEPT ![r] = 0]
    /\ issuedRefreshing' = [issuedRefreshing EXCEPT ![r] = FALSE]
    /\ UNCHANGED <<retry, authHeader, sends>>
    /\ UNCHANGED <<cycle, role, settledAt, resolveCalls, rejectCalls, handedToken>>
    /\ UNCHANGED <<tokenVars, backendVars, pipeVars>>
    /\ UNCHANGED loggedOut
    /\ UNCHANGED libVars

\* Variant: an error the handler does not take up also clears the token.
PassThrough_ClearsToken(r, status) ==
    /\ phase' = [phase EXCEPT ![r] = "rejected"]
    /\ outcome' = [outcome EXCEPT ![r] = status]
    /\ UNCHANGED <<retry, pipeVars, cycle, role, settledAt>>
    /\ epoch' = [epoch EXCEPT ![r] = 0]
    /\ issuedRefreshing' = [issuedRefreshing EXCEPT ![r] = FALSE]
    /\ setAccessToken(NoToken)
    /\ UNCHANGED <<accessToken, isAuthenticated, getAccessToken>>

\* `return Promise.reject(error)` for an error that is not a first 401: the
\* caller gets the error, nothing else is touched.
PassThrough(r, status) ==
    /\ phase' = [phase EXCEPT ![r] = "rejected"]
    /\ outcome' = [outcome EXCEPT ![r] = status]
    /\ UNCHANGED <<retry, pipeVars, cycle, role, settledAt>>
    /\ epoch' = [epoch EXCEPT ![r] = 0]
    /\ issuedRefreshing' = [issuedRefreshing EXCEPT ![r] = FALSE]
    /\ UNCHANGED tokenVars

\* Response interceptor, rejected branch, up to the await of the refresh.
OnRejected(r, status) ==
    /\ phase[r] = "sent"
    /\ received' = [received EXCEPT ![r] = status]
    /\ IF ~ShouldRefresh(status, r)
         THEN PassThrough(r, status)
         ELSE /\ UNCHANGED tokenVars
              /\ retry' = MarkRetried(r)
              /\ settledAt' = [settledAt EXCEPT ![r] = refreshCalls - refreshInFlight]
              /\ UNCHANGED <<outcome, epoch, issuedRefreshing>>
              /\ IF AlreadyRefreshing
                   THEN \* pendingQueue.push({resolve, reject})
                        /\ pendingQueue' = Append(pendingQueue, r)
                        /\ phase' = [phase EXCEPT ![r] = "queued"]
                        /\ role' = [role EXCEPT ![r] = "queued"]
                        /\ cycle' = [cycle EXCEPT ![r] = refreshCalls]
                        /\ UNCHANGED <<isRefreshing, refreshInFlight, refreshCalls,
                                       refreshStatus, refreshToken>>
                   ELSE \* isRefreshing = true; await AuthService.refresh()
                        /\ isRefreshing' = StartIsRefreshing
                        /\ refreshCalls' = refreshCalls + 1
                        /\ refreshInFlight' = refreshInFlight + 1
                        /\ refreshStatus' = [refreshStatus EXCEPT ![refreshCalls + 1] = "pending"]
                        /\ phase' = [phase EXCEPT ![r] = "awaiting"]
                        /\ role' = [role EXCEPT ![r] = "trigger"]
                        /\ cycle' = [cycle EXCEPT ![r] = refreshCalls + 1]
                        /\ UNCHANGED <<pendingQueue, refreshToken>>
    /\ UNCHANGED <<authHeader, sends>>
    /\ UNCHANGED <<resolveCalls, rejectCalls, handedToken>>
    /\ UNCHANGED backendVars
    /\ UNCHANGED loggedOut
    /\ UNCHANGED libVars

\* The try branch after `await AuthService.refresh()` returned access_token t
\* to the handler of trigger request r: setAccessToken, processQueue, replay
\* of r, finally.  The replays pass the request interceptor in microtasks of
\* this same task, before React renders again.
RefreshResolved(r) ==
    LET t == NextToken
        pq == processQueue(FALSE, t)
        hit(q) == q # r /\ Occurrences(q) > 0
        replayed(q) == q = r \/ (hit(q) /\ pq.verdict = "resolve")
    IN
    /\ phase[r] = "awaiting"
    /\ t \in Tokens
    /\ tokensIssued' = t
    /\ setAccessToken(t)
    /\ pendingQueue' = pq.queue
    /\ isRefreshing' = FinallyIsRefreshing
    /\ refreshInFlight' = refreshInFlight - 1
    /\ refreshStatus' = [refreshStatus EXCEPT ![cycle[r]] = "ok"]
    /\ refreshToken' = [refreshToken EXCEPT ![cycle[r]] = t]
    /\ phase' = [q \in Reqs |->
                   IF replayed(q) THEN "sent"
                   ELSE IF hit(q) THEN "rejected"
                   ELSE phase[q]]
    /\ authHeader' = [q \in Reqs |->
                        IF replayed(q) THEN RequestInterceptor(t) ELSE authHeader[q]]
    /\ sends' = [q \in Reqs |->
                   IF q = r THEN sends[q] + 1
                   ELSE IF pq.verdict = "resolve" THEN sends[q] + Occurrences(q)
                   ELSE sends[q]]
    /\ outcome' = [q \in Reqs |->
                     IF hit(q) /\ pq.verdict = "rejectNoToken" THEN NoTokenError
                     ELSE IF hit(q) /\ pq.verdict = "reject" THEN RefreshError
                     ELSE outcome[q]]
    /\ resolveCalls' = [q \in Reqs |->
                          IF pq.verdict = "resolve"
                            THEN resolveCalls[q] + Occurrences(q) ELSE resolveCalls[q]]
    /\ rejectCalls' = [q \in Reqs |->
                         IF pq.verdict # "resolve"
                           THEN rejectCalls[q] + Occurrences(q) ELSE rejectCalls[q]]
    /\ handedToken' = [q \in Reqs |-> IF replayed(q) THEN t ELSE handedToken[q]]
    /\ UNCHANGED <<refreshCalls, retry, received>>
    /\ UNCHANGED <<epoch, issuedRefreshing, cycle, role, settledAt>>
    /\ UNCHANGED <<accessToken, isAuthenticated, getAccessToken>>
    /\ UNCHANGED loggedOut
    /\ UNCHANGED libVars

\* The catch branch: AuthService.refresh() threw to the handler of trigger
\* request r: processQueue(refreshErr, null), setAccessToken(null), reject,
\* finally.
\* The refresh call is posted through authHttp, whose own
\* response interceptor logs the error and rejects with it: an error of any
\* status, 401 included, arrives here and not in the handler above.
RefreshRejected(r) ==
    LET pq == processQueue(TRUE, NoToken)
        hit(q) == q # r /\ Occurrences(q) > 0
        replayed(q) == hit(q) /\ pq.verdict = "resolve"
    IN
    /\ phase[r] = "awaiting"
    /\ setAccessToken(NoToken)
    /\ pendingQueue' = pq.queue
    /\ isRefreshing' = FinallyIsRefreshing
    /\ refreshInFlight' = refreshInFlight - 1
    /\ refreshStatus' = [refreshStatus EXCEPT ![cycle[r]] = "fail"]
    /\ phase' = [q \in Reqs |->
                   IF q = r THEN "rejected"
                   ELSE IF replayed(q) THEN "sent"
                   ELSE IF hit(q) THEN "rejected"
                   ELSE phase[q]]
    /\ authHeader' = [q \in Reqs |->
                        IF replayed(q) THEN RequestInterceptor(NoToken) ELSE authHeader[q]]
    /\ sends' = [q \in Reqs |->
                   IF q # r /\ pq.verdict = "resolve" THEN sends[q] + Occurrences(q)
                   ELSE sends[q]]
    /\ outcome' = [q \in Reqs |->
                     IF q = r THEN RefreshError
                     ELSE IF hit(q) /\ pq.verdict = "rejectNoToken" THEN NoTokenError
                     ELSE IF hit(q) /\ pq.verdict = "reject" THEN RefreshError
                     ELSE outcome[q]]
    /\ resolveCalls' = [q \in Reqs |->
                          IF pq.verdict = "resolve"
                            THEN resolveCalls[q] + Occurrences(q) ELSE resolveCalls[q]]
    /\ rejectCalls' = [q \in Reqs |->
                         IF pq.verdict # "resolve"
                           THEN rejectCalls[q] + Occurrences(q) ELSE rejectCalls[q]]
    /\ UNCHANGED <<refreshCalls, refreshToken, retry, received, handedToken>>
    /\ UNCHANGED backendVars
    /\ UNCHANGED <<epoch, issuedRefreshing, cycle, role, settledAt>>
    /\ UNCHANGED <<accessToken, isAuthenticated, getAccessToken>>
    /\ UNCHANGED loggedOut
    /\ UNCHANGED libVars

\* =============================================== passwordValidator.ts
\* A password is a sequence of characters, each a one-character string.
UpperLetters ==
    <<"A","B","C","D","E","F","G","H","I","J","K","L","M",
      "N","O","P","Q","R","S","T","U","V","W","X","Y","Z">>

LowerLetters ==
    <<"a","b","c","d","e","f","g","h","i","j","k","l","m",
      "n","o","p","q","r","s","t","u","v","w","x","y","z">>

DigitRow ==
    <<"0","1","2","3","4","5","6","7","8","9","0">>

Range(row) ==
    {row[i] : i \in 1..Len(row)}

\* The three-character windows of a row of characters.
Windows(row) ==
    {SubSeq(row, i, i + 2) : i \in 1..(Len(row) - 2)}

\* String.prototype.toLowerCase on the characters of the model.
toLowerChar(c) ==
    IF \E i \in 1..Len(UpperLetters) : UpperLetters[i] = c
      THEN LowerLetters[CHOOSE i \in 1..Len(UpperLetters) : UpperLetters[i] = c]
      ELSE c

toLowerCase(s) ==
    [i \in 1..Len(s) |-> toLowerChar(s[i])]

\* REGEX_PATTERNS (the second declaration in the file)
UppercaseChars == Range(UpperLetters)
LowercaseChars == Range(LowerLetters)
NumberChars == Range(DigitRow)
\* (the class also holds the grave accent, which no password of the model
\* contains)
SpecialChars ==
    {"!","@","#","$","%","^","&","*","(",")",",",".","?","\"",":","{","}",
     "|","<",">","_","-","+","=","[","]","\\","/","~"}

CommonSequences ==
    Windows(DigitRow) \cup Windows(LowerLetters)

KeyboardRuns ==
    Windows(<<"q","w","e","r","t","y","u","i","o","p">>)
        \cup Windows(<<"a","s","d","f","g","h","j","k","l">>)
        \cup Windows(<<"z","x","c","v","b","n","m">>)

\* /[...]/.test(s): some character of s is in the class.
TestClass(class, s) ==
    \E i \in 1..Len(s) : s[i] \in class

\* /(p1|p2|...)/i.test(s) for three-letter alternatives written in lower case.
TestRuns(runs, s) ==
    \E i \in 1..(Len(s) - 2) : SubSeq(toLowerCase(s), i, i + 2) \in runs

\* /(.)\1{2,}/.test(s): a character followed by itself twice (case matters).
TestRepeated(s) ==
    \E i \in 1..(Len(s) - 2) : s[i] = s[i + 1] /\ s[i + 1] = s[i + 2]

\* COMMON_PASSWORDS (the second declaration in the file)
COMMON_PASSWORDS ==
    { <<"p","a","s","s","w","o","r","d">>,
      <<"1","2","3","4","5","6">>,
      <<"1","2","3","4","5","6","7","8">>,
      <<"q","w","e","r","t","y">>,
      <<"a","b","c","1","2","3">>,
      <<"p","a","s","s","w","o","r","d","1","2","3">>,
      <<"a","d","m","i","n">>,
      <<"l","e","t","m","e","i","n">>,
      <<"w","e","l","c","o","m","e">>,
      <<"1","2","3","4","5","6","7","8","9","0">>,
      <<"g","e","a","r","f","a","l","c","o","n">>,
      <<"a","i","r","c","o","n">>,
      <<"s","e","r","v","i","c","e">>,
      <<"c","u","s","t","o","m","e","r">>,
      <<"a","d","m","i","n","1","2","3">> }

\* COMMON_PASSWORDS.includes(password.toLowerCase())
IsCommon(password) ==
    toLowerCase(password) \in COMMON_PASSWORDS

\* new Set(password.toLowerCase()).size
UniqueChars(password) ==
    Cardinality(Range(toLowerCase(password)))

\* Feedback messages (the two with ${config.minLength} / ${config.maxLength}
\* are named by their fixed text).
MsgRequired == "Password is required"
MsgTooShort == "Password must be at least minLength characters long"
MsgTooLong == "Password must not exceed maxLength characters"
MsgUppercase == "Password must contain at least one uppercase letter (A-Z)"
MsgLowercase == "Password must contain at least one lowercase letter (a-z)"
MsgNumbers == "Password must contain at least one number (0-9)"
MsgSpecial == "Password must contain at least one special character"
MsgCommon == "This password is too common. Please choose a more unique password"
MsgSequence == "Avoid common sequences like 123 or abc for better security"
MsgRepeated == "Avoid repeating characters like aaa for better security"
MsgKeyboard == "Avoid keyboard patterns like qwerty for better security"
MsgSuccess == "Password meets all requirements"

Warnings ==
    {MsgSequence, MsgRepeated, MsgKeyboard}

\* The outcome of one block of validatePasswordStrength: whether it sets
\* isValid to false, what it pushes on feedback, what it adds to score.
Step(failed, feedback, points) ==
    [failed |-> failed, feedback |-> feedback, points |-> points]

\* Variant: an unmet required class earns no points but is not a failure.
ClassCheck_NotAFailure(required, met, msg) ==
    Step(FALSE, IF required /\ ~met THEN <<msg>> ELSE <<>>, IF met THEN 15 ELSE 0)

\* `if (config.requireX && !X.test(password)) {feedback.push; isValid = false}
\*  else if (X.test(password)) score += 15`
ClassCheck(required, met, msg) ==
    IF required /\ ~met THEN Step(TRUE, <<msg>>, 0)
    ELSE IF met THEN Step(FALSE, <<>>, 15)
    ELSE Step(FALSE, <<>>, 0)

\* Variant: no lower-casing before the deny-list lookup.
CommonCheck_CaseSensitive(prevent, password) ==
    IF prevent /\ password \in COMMON_PASSWORDS
      THEN Step(TRUE, <<MsgCommon>>, -20)
      ELSE Step(FALSE, <<>>, 0)

\* `if (config.preventCommonPasswords && COMMON_PASSWORDS.includes(...))`
CommonCheck(prevent, password) ==
    IF prevent /\ IsCommon(password)
      THEN Step(TRUE, <<MsgCommon>>, -20)
      ELSE Step(FALSE, <<>>, 0)

\* Variant: a matched pattern is treated as a failed requirement.
PatternCheck_Strict(matched, msg) ==
    IF matched THEN Step(TRUE, <<msg>>, -10) ELSE Step(FALSE, <<>>, 0)

\* `if (PATTERN.test(password)) {feedback.push(warning); score -= 10}`
PatternCheck(matched, msg) ==
    IF matched THEN Step(FALSE, <<msg>>, -10) ELSE Step(FALSE, <<>>, 0)

\* Variant: the feedback list is returned as collected.
FeedbackOrSuccess_AsCollected(feedback) ==
    feedback

\* `feedback.length > 0 ? feedback : ['Password meets all requirements']`
FeedbackOrSuccess(feedback) ==
    IF Len(feedback) > 0 THEN feedback ELSE <<MsgSuccess>>

\* Math.max(0, score)
ClampScore(score) ==
    IF score < 0 THEN 0 ELSE score

getPasswordStrength(score) ==
    IF score >= 80 THEN "very-strong"
    ELSE IF score >= 60 THEN "strong"
    ELSE IF score >= 40 THEN "medium"
    ELSE IF score >= 20 THEN "weak"
    ELSE "very-weak"

Requirement(id, met, required) ==
    [id |-> id, met |-> met, required |-> required]

IsRequired(req) ==
    req.required

\* The six records of getRequirementsList before `.filter`.
AllRequirements(password, config) ==
    << Requirement("length", Len(password) >= config.minLength, TRUE),
       Requirement("uppercase", TestClass(UppercaseChars, password), config.requireUppercase),
       Requirement("lowercase", TestClass(LowercaseChars, password), config.requireLowercase),
       Requirement("numbers", TestClass(NumberChars, password), config.requireNumbers),
       Requirement("special", TestClass(SpecialChars, password), config.requireSpecialChars),
       Requirement("common", ~IsCommon(password), config.preventCommonPasswords) >>

\* Variant: the records are returned without the filter.
getRequirementsList_Unfiltered(password, config) ==
    AllRequirements(password, config)

getRequirementsList(password, config) ==
    SelectSeq(AllRequirements(password, config), IsRequired)

\* The blocks of validatePasswordStrength in the order they run.
Steps(password, config) ==
    << \* length
       IF Len(password) < config.minLength
         THEN Step(TRUE, <<MsgTooShort>>, 0)
         ELSE Step(FALSE, <<>>, 10),
       IF Len(password) > config.maxLength
         THEN Step(TRUE, <<MsgTooLong>>, 0)
         ELSE Step(FALSE, <<>>, 0),
       \* character classes
       ClassCheck(config.requireUppercase, TestClass(UppercaseChars, password), MsgUppercase),
       ClassCheck(config.requireLowercase, TestClass(LowercaseChars, password), MsgLowercase),
       ClassCheck(config.requireNumbers, TestClass(NumberChars, password), MsgNumbers),
       ClassCheck(config.requireSpecialChars, TestClass(SpecialChars, password), MsgSpecial),
       \* deny-list
       CommonCheck(config.preventCommonPasswords, password),
       \* warnings
       PatternCheck(TestRuns(CommonSequences, password), MsgSequence),
       PatternCheck(TestRepeated(password), MsgRepeated),
       PatternCheck(TestRuns(KeyboardRuns, password), MsgKeyboard),
       \* bonuses
       Step(FALSE, <<>>, IF Len(password) >= 12 THEN 10 ELSE 0),
       Step(FALSE, <<>>, IF Len(password) >= 16 THEN 10 ELSE 0),
       Step(FALSE, <<>>, IF 10 * UniqueChars(password) >= 7 * Len(password) THEN 10 ELSE 0) >>

RECURSIVE SumPoints(_)
SumPoints(steps) ==
    IF steps = <<>> THEN 0 ELSE Head(steps).points + SumPoints(Tail(steps))

RECURSIVE AllFeedback(_)
AllFeedback(steps) ==
    IF steps = <<>> THEN <<>> ELSE Head(steps).feedback \o AllFeedback(Tail(steps))

validatePasswordStrength(password, config) ==
    IF password = <<>>
      THEN [isValid |-> FALSE, score |-> 0, strength |-> "invalid",
            feedback |-> <<MsgRequired>>,
            requirements |-> getRequirementsList(<<>>, config)]
      ELSE LET steps == Steps(password, config)
               score == ClampScore(SumPoints(steps))
           IN [isValid |-> \A i \in 1..Len(steps) : ~steps[i].failed,
               score |-> score,
               strength |-> getPasswordStrength(score),
               feedback |-> FeedbackOrSuccess(AllFeedback(steps)),
               requirements |-> getRequirementsList(password, config)]

\* ---------------------------------------- the first definitions in the file
\* COMMON_PASSWORDS and the functions as the file declares them first
\* (lines 41-142): two uppercase letters wanted, other weights and
\* thresholds, no empty-password case, no clamp, no filter.
COMMON_PASSWORDS_First ==
    { <<"p","a","s","s","w","o","r","d">>,
      <<"1","2","3","4","5","6">>,
      <<"1","2","3","4","5","6","7","8">>,
      <<"q","w","e","r","t","y">>,
      <<"a","b","c","1","2","3">> }

MsgUppercase2 == "Password must contain at least 2 uppercase letters (A-Z)"
MsgCommonFirst == "This password is too common"

\* /(?:.*[A-Z]){2,}/.test(s): two positions of s hold an uppercase letter.
TestUppercase2(s) ==
    \E i, j \in 1..Len(s) : i < j /\ s[i] \in UppercaseChars /\ s[j] \in UppercaseChars

getPasswordStrengthFirst(score) ==
    IF score >= 70 THEN "very-strong"
    ELSE IF score >= 50 THEN "strong"
    ELSE IF score >= 30 THEN "medium"
    ELSE IF score >= 15 THEN "weak"
    ELSE "very-weak"

getRequirementsListFirst(password, config) ==
    << Requirement("length", Len(password) >= config.minLength, TRUE),
       Requirement("uppercase2", TestUppercase2(password), config.requireUppercase),
       Requirement("lowercase", TestClass(LowercaseChars, password), config.requireLowercase),
       Requirement("common", toLowerCase(password) \notin COMMON_PASSWORDS_First,
                   config.preventCommonPasswords) >>

StepsFirst(password, config) ==
    << IF Len(password) < config.minLength
         THEN Step(TRUE, <<MsgTooShort>>, 0)
         ELSE Step(FALSE, <<>>, 20),
       IF Len(password) > config.maxLength
         THEN Step(TRUE, <<MsgTooLong>>, 0)
         ELSE Step(FALSE, <<>>, 0),
       IF config.requireUppercase /\ ~TestUppercase2(password)
         THEN Step(TRUE, <<MsgUppercase2>>, 0)
         ELSE Step(FALSE, <<>>, IF TestUppercase2(password) THEN 30 ELSE 0),
       IF config.requireLowercase /\ ~TestClass(LowercaseChars, password)
         THEN Step(TRUE, <<MsgLowercase>>, 0)
         ELSE Step(FALSE, <<>>, IF TestClass(LowercaseChars, password) THEN 20 ELSE 0),
       IF config.preventCommonPasswords /\ toLowerCase(password) \in COMMON_PASSWORDS_First
         THEN Step(TRUE, <<MsgCommonFirst>>, -20)
         ELSE Step(FALSE, <<>>, 0) >>

validatePasswordStrengthFirst(password, config) ==
    LET steps == StepsFirst(password, config)
        score == SumPoints(steps)
    IN [isValid |-> \A i \in 1..Len(steps) : ~steps[i].failed,
        score |-> score,
        strength |-> getPasswordStrengthFirst(score),
        feedback |-> IF Len(AllFeedback(steps)) > 0 THEN AllFeedback(steps) ELSE <<MsgSuccess>>,
        requirements |-> getRequirementsListFirst(password, config)]

\* ------------------------------------------------ callers of the validator
DEFAULT_PASSWORD_REQUIREMENTS ==
    [minLength |-> 8, maxLength |-> 128,
     requireUppercase |-> TRUE, requireLowercase |-> TRUE,
     requireNumbers |-> TRUE, requireSpecialChars |-> TRUE,
     preventCommonPasswords |-> TRUE]

\* <<minLength, maxLength>> of the policies the callers pass: the default
\* profile and an override with a short maximum.
LengthProfiles ==
    { <<DEFAULT_PASSWORD_REQUIREMENTS.minLength, DEFAULT_PASSWORD_REQUIREMENTS.maxLength>>,
      <<3, 6>> }

\* `{ ...DEFAULT_PASSWORD_REQUIREMENTS, ...options }` for the options the
\* callers pass.
Configs ==
    { [minLength |-> lp[1], maxLength |-> lp[2],
       requireUppercase |-> u, requireLowercase |-> l,
       requireNumbers |-> n, requireSpecialChars |-> s,
       preventCommonPasswords |-> c] :
         lp \in LengthProfiles, u \in BOOLEAN, l \in BOOLEAN,
         n \in BOOLEAN, s \in BOOLEAN, c \in BOOLEAN }

\* The passwords callers pass: up to MaxParts pieces typed one after the
\* other, each piece one of Parts.
Parts ==
    { <<"A">>, <<"a">>, <<"1">>, <<"!">>,
      <<"1","2","3">>, <<"4","5","6">>, <<"a","s","d">>, <<"f","g","h">>,
      <<"!","!","!">>, <<"d","m","i","n">>, <<"A","b","1","!">> }

RECURSIVE PasswordsOf(_)
PasswordsOf(n) ==
    IF n = 0 THEN {<<>>}
    ELSE LET shorter == PasswordsOf(n - 1)
         IN shorter \cup {p \o q : p \in shorter, q \in Parts}

NoResult ==
    [isValid |-> FALSE, score |-> 0, strength |-> "none",
     feedback |-> <<>>, requirements |-> <<>>]

ValidatorIdle ==
    /\ typed = <<>>
    /\ policy = DEFAULT_PASSWORD_REQUIREMENTS
    /\ definition = "none"
    /\ result = NoResult

\* A caller evaluates the password `typed` under `policy` with the function the file
\* declares second (lines 248-353) ...
Validate ==
    /\ definition = "none"
    /\ definition' = "second"
    /\ result' = validatePasswordStrength(typed, policy)
    /\ UNCHANGED <<typed, policy>>
    /\ UNCHANGED <<sessionVars, generatorVars, pageVars, formVars>>

\* ... or with the one it declares first (lines 50-105).
ValidateFirst ==
    /\ definition = "none"
    /\ definition' = "first"
    /\ result' = validatePasswordStrengthFirst(typed, policy)
    /\ UNCHANGED <<typed, policy>>
    /\ UNCHANGED <<sessionVars, generatorVars, pageVars, formVars>>

\* ------------------------------------------------- generateSecurePassword
Digits ==
    SubSeq(DigitRow, 1, 10)

\* `special` of the second definition, `symbols` of the first
SpecialPool ==
    <<"!","@","#","$","%","^","&","*","(",")","_","-","=","[","]","{","}",
      "|",";",":",",",".","<",">","?">>

SymbolsPoolFirst ==
    <<"!","@","#","$","%","^","&","*","(",")","_","+","[","]","{","}",
      "|",";",":",",",".","<",">","?">>

AllChars ==
    UpperLetters \o LowerLetters \o Digits \o SpecialPool

AllCharsFirst ==
    UpperLetters \o LowerLetters \o Digits \o SymbolsPoolFirst

\* The random source: its k-th draw (k = 0, 1, ...) is Random(seed, k) /
\* RandomGrain, a number in [0, 1).
Seeds ==
    [start : 0..(RandomGrain - 1), step : 0..(RandomGrain - 1)]

Random(sd, k) ==
    (sd.start + k * sd.step) % RandomGrain

\* Math.floor(Math.random() * n), and secureRandomInt(n, cryptoObj)
RandomIndex(n, sd, k) ==
    (Random(sd, k) * n) \div RandomGrain

\* pick(pool)
Pick(pool, sd, k) ==
    pool[RandomIndex(Len(pool), sd, k) + 1]

Swap(chars, i, j) ==
    [chars EXCEPT ![i] = chars[j], ![j] = chars[i]]

\* Fisher-Yates from 0-based index i down to 1, the draws starting at k.
RECURSIVE Shuffle(_, _, _, _)
Shuffle(chars, i, sd, k) ==
    IF i <= 0 THEN chars
    ELSE Shuffle(Swap(chars, i + 1, RandomIndex(i + 1, sd, k) + 1), i - 1, sd, k + 1)

GeneratedLength == 12

\* The second definition: no parameter; one character of each class, the
\* rest from allChars up to 12, then the shuffle.
PasswordChars(sd) ==
    [i \in 1..GeneratedLength |->
        IF i = 1 THEN Pick(UpperLetters, sd, 0)
        ELSE IF i = 2 THEN Pick(LowerLetters, sd, 1)
        ELSE IF i = 3 THEN Pick(Digits, sd, 2)
        ELSE IF i = 4 THEN Pick(SpecialPool, sd, 3)
        ELSE Pick(AllChars, sd, i - 1)]

generateSecurePassword(sd) ==
    Shuffle(PasswordChars(sd), GeneratedLength - 1, sd, GeneratedLength)

\* What `.sort(() => Math.random() - 0.5)` can return for s: the order is
\* implementation-defined; the rotations of s stand for it.
SortOutcomes(s) ==
    { [i \in 1..Len(s) |-> s[((i - 1 + d) % Len(s)) + 1]] : d \in 0..(Len(s) - 1) }

\* The first definition, up to the shuffle: two uppercase letters, the rest
\* from allChars up to `length`.
generateSecurePasswordFirst(length, sd) ==
    [i \in 1..(IF length < 2 THEN 2 ELSE length) |->
        IF i <= 2 THEN Pick(UpperLetters, sd, i - 1)
        ELSE Pick(AllCharsFirst, sd, i - 1)]

GeneratorIdle ==
    /\ requested = GeneratedLength
    /\ seed = [start |-> 0, step |-> 0]
    /\ generator = "none"
    /\ chosen = <<>>
    /\ generated = <<>>

\* A caller asks for a password of `requested` characters; the second
\* definition takes no argument.
Generate ==
    /\ generator = "none"
    /\ generator' = "second"
    /\ chosen' = PasswordChars(seed)
    /\ generated' = generateSecurePassword(seed)
    /\ UNCHANGED <<requested, seed>>
    /\ UNCHANGED <<sessionVars, validatorVars, pageVars, formVars>>

GenerateFirst ==
    /\ generator = "none"
    /\ generator' = "first"
    /\ chosen' = generateSecurePasswordFirst(requested, seed)
    /\ generated' \in SortOutcomes(generateSecurePasswordFirst(requested, seed))
    /\ UNCHANGED <<requested, seed>>
    /\ UNCHANGED <<sessionVars, validatorVars, pageVars, formVars>>

\* ============================================ verify-email/page.tsx
CodeLength == 4

\* What the input element's value can be changed to: digits and other
\* characters, typed, pasted or set by a script.
TypedChars ==
    {"7", "x"}

InputValues ==
    UNION { [1..n -> TypedChars] : n \in 0..MaxTyped }

MsgEnterCode == "Please enter a 4-digit verification code"
MsgVerified == "Email verified successfully! Redirecting to login..."
MsgVerificationFailed == "Verification failed. Please try again."
MsgResent == "New verification code sent! Please check your email."
MsgResendFailed == "Failed to resend verification code. Please try again."
\* stands for the messages of the catch branches
MsgRequestError == "Network error. Please try again."

\* How a call of AuthService settles: success true, success false, thrown.
Responses ==
    {"success", "failure", "error"}

IsDigit(c) ==
    c \in Range(Digits)

\* Variant: the value is taken as typed.
OnlyDigits_AsTyped(value) ==
    value

\* `.replace(/\D/g, '')`
OnlyDigits(value) ==
    SelectSeq(value, IsDigit)

\* `.slice(0, 4)`
SliceCode(value) ==
    SubSeq(value, 1, IF Len(value) < CodeLength THEN Len(value) ELSE CodeLength)

\* The page after mounting.
PageInit ==
    /\ code = <<>>
    /\ codeError = ""
    /\ codeMessage = ""
    /\ isLoading = FALSE
    /\ isResending = FALSE
    /\ verifyCalls = 0
    /\ verifyPending = 0
    /\ verifyArg = <<>>
    /\ submitted = FALSE

handleCodeChange(value) ==
    /\ code' = SliceCode(OnlyDigits(value))
    /\ codeError' = ""
    /\ submitted' = FALSE
    /\ UNCHANGED <<codeMessage, isLoading, isResending, verifyCalls, verifyPending, verifyArg>>
    /\ UNCHANGED <<sessionVars, validatorVars, generatorVars, formVars>>

\* handleVerification up to the await of AuthService.verifyEmail.
handleVerification ==
    /\ submitted' = TRUE
    /\ IF code = <<>> \/ Len(code) # CodeLength
         THEN /\ codeError' = MsgEnterCode
              /\ UNCHANGED <<codeMessage, isLoading, verifyCalls, verifyPending, verifyArg>>
         ELSE /\ verifyCalls < MaxVerify
              /\ isLoading' = TRUE
              /\ codeError' = ""
              /\ codeMessage' = ""
              /\ verifyCalls' = verifyCalls + 1
              /\ verifyPending' = verifyPending + 1
              /\ verifyArg' = code
    /\ UNCHANGED <<code, isResending>>
    /\ UNCHANGED <<sessionVars, validatorVars, generatorVars, formVars>>

\* handleVerification after the await: try, catch, finally.
VerifySettled(response) ==
    /\ verifyPending > 0
    /\ verifyPending' = verifyPending - 1
    /\ IF response = "success"
         THEN codeMessage' = MsgVerified /\ UNCHANGED codeError
         ELSE /\ codeError' = IF response = "failure" THEN MsgVerificationFailed
                                                     ELSE MsgRequestError
              /\ UNCHANGED codeMessage
    /\ isLoading' = FALSE
    /\ submitted' = FALSE
    /\ UNCHANGED <<code, isResending, verifyCalls, verifyArg>>
    /\ UNCHANGED <<sessionVars, validatorVars, generatorVars, formVars>>

\* handleResendCode up to the await of AuthService.resendVerificationCode;
\* the button is disabled while isResending.
handleResendCode ==
    /\ ~isResending
    /\ isResending' = TRUE
    /\ codeError' = ""
    /\ codeMessage' = ""
    /\ submitted' = FALSE
    /\ UNCHANGED <<code, isLoading, verifyCalls, verifyPending, verifyArg>>
    /\ UNCHANGED <<sessionVars, validatorVars, generatorVars, formVars>>

\* handleResendCode after the await.
ResendSettled(response) ==
    /\ isResending
    /\ IF response = "success"
         THEN /\ codeMessage' = MsgResent
              /\ code' = <<>>
              /\ UNCHANGED codeError
         ELSE /\ codeError' = IF response = "failure" THEN MsgResendFailed
                                                     ELSE MsgRequestError
              /\ UNCHANGED <<code, codeMessage>>
    /\ isResending' = FALSE
    /\ submitted' = FALSE
    /\ UNCHANGED <<isLoading, verifyCalls, verifyPending, verifyArg>>
    /\ UNCHANGED <<sessionVars, validatorVars, generatorVars, formVars>>

\* ========================================== usePasswordValidation.tsx
\* PASSWORD_CONFIGS[userType]
ADMIN_PASSWORD_REQUIREMENTS ==
    [DEFAULT_PASSWORD_REQUIREMENTS EXCEPT !.minLength = 12, !.maxLength = 128]

CUSTOMER_PASSWORD_REQUIREMENTS ==
    [DEFAULT_PASSWORD_REQUIREMENTS EXCEPT !.minLength = 8]

PASSWORD_CONFIGS(type) ==
    IF type = "customer" THEN CUSTOMER_PASSWORD_REQUIREMENTS
    ELSE ADMIN_PASSWORD_REQUIREMENTS

\* What the fields of the form are changed to: nothing, a blank, and
\* passwords of one to MaxPieces pieces.
FormPiece ==
    <<"A", "b", "1", "!">>

RECURSIVE Repeat(_, _)
Repeat(piece, n) ==
    IF n = 0 THEN <<>> ELSE piece \o Repeat(piece, n - 1)

FormInputs ==
    {<<>>, <<" ">>} \cup {Repeat(FormPiece, n) : n \in 1..MaxPieces}

\* `!password || password.trim() === ''`
IsBlank(s) ==
    \A i \in 1..Len(s) : s[i] = " "

NoTimer ==
    [set |-> FALSE, password |-> <<>>]

\* The form after mounting with empty fields and its effects run.
FormInit ==
    /\ formPassword = <<>>
    /\ confirmPassword = <<>>
    /\ userType = "customer"
    /\ validation = NoResult
    /\ isValidating = FALSE
    /\ timeoutId = NoTimer
    /\ confirmationValidation = TRUE
    /\ effects = "none"

\* The parent renders the hook with another password: the render returns
\* the state as it is; the effects whose dependencies changed run after it.
ChangePassword(p) ==
    /\ effects = "none"
    /\ p # formPassword
    /\ formPassword' = p
    /\ effects' = "all"
    /\ UNCHANGED <<confirmPassword, userType, validation, isValidating, timeoutId,
                   confirmationValidation>>
    /\ UNCHANGED <<sessionVars, validatorVars, generatorVars, pageVars>>

ChangeConfirm(c) ==
    /\ effects = "none"
    /\ c # confirmPassword
    /\ confirmPassword' = c
    /\ effects' = "confirmation"
    /\ UNCHANGED <<formPassword, userType, validation, isValidating, timeoutId,
                   confirmationValidation>>
    /\ UNCHANGED <<sessionVars, validatorVars, generatorVars, pageVars>>

\* The effect of usePasswordConfirmation.
ConfirmationEffect ==
    IF formPassword = <<>> \/ confirmPassword = <<>> THEN TRUE
    ELSE formPassword = confirmPassword

\* The effects of the last render: for a changed password the cleanup of
\* the previous effect of usePasswordValidation (clearTimeout) and its
\* body; the effect of usePasswordConfirmation.
RunEffects ==
    /\ effects # "none"
    /\ effects' = "none"
    /\ IF effects = "all"
         THEN IF IsBlank(formPassword)
                THEN /\ validation' = NoResult
                     /\ isValidating' = FALSE
                     /\ timeoutId' = NoTimer
                ELSE /\ isValidating' = TRUE
                     /\ timeoutId' = [set |-> TRUE, password |-> formPassword]
                     /\ UNCHANGED validation
         ELSE UNCHANGED <<validation, isValidating, timeoutId>>
    /\ confirmationValidation' = ConfirmationEffect
    /\ UNCHANGED <<formPassword, confirmPassword, userType>>
    /\ UNCHANGED <<sessionVars, validatorVars, generatorVars, pageVars>>

\* The callback of setTimeout(..., 300).
TimerFires ==
    /\ timeoutId.set
    /\ validation' = validatePasswordStrength(timeoutId.password, PASSWORD_CONFIGS(userType))
    /\ isValidating' = FALSE
    /\ timeoutId' = NoTimer
    /\ UNCHANGED <<formPassword, confirmPassword, userType, confirmationValidation, effects>>
    /\ UNCHANGED <<sessionVars, validatorVars, generatorVars, pageVars>>

\* What usePasswordForm returns.
canSubmit ==
    /\ validation.isValid /\ confirmationValidation
    /\ Len(formPassword) > 0 /\ Len(confirmPassword) > 0

\* ------------------------------------------------------- specification
\* The session layer: the validator and the generator are not called.
Init ==
    SessionInit /\ ValidatorIdle /\ GeneratorIdle /\ PageInit /\ FormInit

Next ==
    \/ Render
    \/ logout
    \/ \E ok \in BOOLEAN : handleLogin(ok)
    \/ \E r \in Reqs : Issue(r)
    \/ \E r \in Reqs : OnFulfilled(r)
    \/ \E r \in Reqs, s \in ErrorStatuses : OnRejected(r, s)
    \/ \E r \in Reqs : RefreshResolved(r)
    \/ \E r \in Reqs : RefreshRejected(r)

Spec == Init /\ [][Next]_vars

\* The promise of a pending AuthService.refresh() settles: the endpoint
\* answers, or the call fails with a network error.
RefreshReturns ==
    \E r \in Reqs : RefreshResolved(r) \/ RefreshRejected(r)

\* The session layer with every refresh call returning eventually.
FairSpec == Init /\ [][Next]_vars /\ WF_vars(RefreshReturns)

\* Calls of validatePasswordStrength on the passwords and policies of the
\* callers; the session layer and the generator stay as they start.
ValidatorInit ==
    /\ SessionInit
    /\ GeneratorIdle
    /\ PageInit
    /\ FormInit
    /\ typed \in PasswordsOf(MaxParts)
    /\ policy \in Configs
    /\ definition = "none"
    /\ result = NoResult

ValidatorNext ==
    \/ Validate
    \/ ValidateFirst

ValidatorSpec == ValidatorInit /\ [][ValidatorNext]_vars

\* Calls of generateSecurePassword for the lengths callers ask for and the
\* outcomes of the random source.
GeneratorInit ==
    /\ SessionInit
    /\ ValidatorIdle
    /\ PageInit
    /\ FormInit
    /\ requested \in 4..MaxRequested
    /\ seed \in Seeds
    /\ generator = "none"
    /\ chosen = <<>>
    /\ generated = <<>>

GeneratorNext ==
    \/ Generate
    \/ GenerateFirst

GeneratorSpec == GeneratorInit /\ [][GeneratorNext]_vars

\* The verify-email page: the user changes the input, submits, asks for a
\* new code; the calls to the backend settle.
PageSpecInit ==
    SessionInit /\ ValidatorIdle /\ GeneratorIdle /\ PageInit /\ FormInit

PageNext ==
    \/ \E value \in InputValues : handleCodeChange(value)
    \/ handleVerification
    \/ \E response \in Responses : VerifySettled(response)
    \/ handleResendCode
    \/ \E response \in Responses : ResendSettled(response)

PageSpec == PageSpecInit /\ [][PageNext]_vars

\* The registration forms: the customer form and the admin form, the user
\* editing the two password fields, the effects and the timer running.
FormSpecInit ==
    /\ SessionInit /\ ValidatorIdle /\ GeneratorIdle /\ PageInit
    /\ formPassword = <<>>
    /\ confirmPassword = <<>>
    /\ userType \in {"customer", "admin"}
    /\ validation = NoResult
    /\ isValidating = FALSE
    /\ timeoutId = NoTimer
    /\ confirmationValidation = TRUE
    /\ effects = "none"

FormNext ==
    \/ \E p \in FormInputs : ChangePassword(p)
    \/ \E c \in FormInputs : ChangeConfirm(c)
    \/ RunEffects
    \/ TimerFires

FormSpec == FormSpecInit /\ [][FormNext]_vars

\* ============================================================ properties
\* The first 401 of request r was taken up by the refresh logic.
Handled(r) ==
    cycle[r] > 0

\* The refresh call that took up r's 401 has returned or thrown.
CycleSettled(r) ==
    Handled(r) /\ refreshStatus[cycle[r]] \in {"ok", "fail"}

\* The response interceptor sent r to the network again.
Replayed(r) ==
    handedToken[r] # NoToken

\* The caller's promise of r was rejected with the error of the refresh.
RejectedByRefresh(r) ==
    outcome[r] = RefreshError

\* r1 and r2 were handed to http while the pipeline was Idle, in the same
\* Idle period, and both failed with 401: they were in flight together.
SameIdleBatch(r1, r2) ==
    /\ Handled(r1) /\ Handled(r2)
    /\ ~issuedRefreshing[r1] /\ ~issuedRefreshing[r2]
    /\ epoch[r1] = epoch[r2]

\* This step dispatches a response, or a network error, for request r.
Answered(r) ==
    phase[r] = "sent" /\ phase'[r] # "sent"

\* How often character c occurs in s.
Count(s, c) ==
    Cardinality({i \in 1..Len(s) : s[i] = c})

\* ------------------------------------------------------------------- C1
\* C1: in every reachable state at most one call to AuthService.refresh is
\* in flight, and every request that started a refresh call did so when no
\* earlier call was still pending: a 401 that arrives while isRefreshing is
\* true never starts its own refresh.
C1_SingleRefreshInFlight ==
    /\ refreshInFlight <= 1
    /\ \A r \in Reqs : role[r] = "trigger" => settledAt[r] = cycle[r] - 1

\* Every other request was answered 401 while the refresh started by the
\* first 401 was in flight, and joined the queue.
C1_Witness ==
    /\ refreshInFlight = 1
    /\ refreshCalls = 1
    /\ Len(pendingQueue) = MaxReq - 1
    /\ \E r \in Reqs : role[r] = "trigger" /\ phase[r] = "awaiting"

\* ------------------------------------------------------------------- C2
\* C2 (as stated): requests sent in one Idle period that all fail with 401
\* share one refresh call, whatever the order of the 401 responses and the
\* refresh response.
C2_OneRefreshPerBatch ==
    \A r1, r2 \in Reqs : SameIdleBatch(r1, r2) => cycle[r1] = cycle[r2]

\* C2 (amended): a request sent while Idle whose 401 reaches the interceptor
\* before the first refresh call made after it was sent has settled is
\* served by that one call; so k such requests cause exactly one call.
C2_OneRefreshWhileInFlight ==
    \A r \in Reqs :
        (Handled(r) /\ ~issuedRefreshing[r] /\ settledAt[r] = epoch[r])
            => cycle[r] = epoch[r] + 1

\* All requests were sent while Idle, all failed with 401 before the
\* refresh settled, and one refresh call was made in all.
C2_Witness ==
    /\ \A r \in Reqs : Handled(r) /\ ~issuedRefreshing[r] /\ epoch[r] = 0
    /\ \A r \in Reqs : settledAt[r] = 0
    /\ refreshCalls = 1
    /\ refreshStatus[1] = "ok"

\* ------------------------------------------------------------------- C3
\* C3 (as stated): of the requests sent in one Idle period that all fail
\* with 401, either all are replayed or all are rejected with the refresh
\* failure; never one replayed and another rejected.
C3_AllOrNothingPerBatch ==
    \A r1, r2 \in Reqs :
        (SameIdleBatch(r1, r2) /\ CycleSettled(r1) /\ CycleSettled(r2))
            => ~(Replayed(r1) /\ RejectedByRefresh(r2))

\* C3 (amended): the requests whose 401s were taken up by the same refresh
\* call (the one that triggered it and those queued behind it) are all
\* replayed when the call succeeded and all rejected with the refresh error
\* when it failed.
C3_AllOrNothingPerCycle ==
    \A r \in Reqs :
        CycleSettled(r) =>
            IF refreshStatus[cycle[r]] = "ok"
              THEN Replayed(r) /\ ~RejectedByRefresh(r) /\ sends[r] = 2
              ELSE ~Replayed(r) /\ RejectedByRefresh(r) /\ sends[r] = 1

\* A refresh call that failed with every other request queued behind its
\* trigger: all of them are rejected with the refresh error.
C3_Witness ==
    \E c \in RefreshIds :
        /\ refreshStatus[c] = "fail"
        /\ Cardinality({r \in Reqs : cycle[r] = c /\ role[r] = "queued"}) = MaxReq - 1
        /\ \E r \in Reqs : cycle[r] = c /\ role[r] = "trigger"
        /\ \A r \in Reqs : RejectedByRefresh(r)

\* ------------------------------------------------------------------- C4
\* C4: after a refresh succeeded with token T2, every request whose 401 was
\* taken up by that refresh has been replayed exactly once, and the
\* Authorization header it left the request interceptor with is T2.
C4_ReplayCarriesNewToken ==
    \A r \in Reqs :
        (CycleSettled(r) /\ refreshStatus[cycle[r]] = "ok")
            => /\ Replayed(r)
               /\ sends[r] = 2
               /\ authHeader[r] = refreshToken[cycle[r]]

\* ------------------------------------------------------------------- C5
\* C5: a request handed to http while a refresh is in flight is not sent to
\* the network before that refresh has settled, and once sent after a
\* successful refresh it carries the token that refresh returned.
C5_IssuedWhileRefreshingWaits ==
    \A r \in Reqs :
        (issuedRefreshing[r] /\ epoch[r] \in RefreshIds) =>
            /\ refreshStatus[epoch[r]] = "pending" => sends[r] = 0
            /\ (refreshStatus[epoch[r]] = "ok" /\ sends[r] > 0)
                   => authHeader[r] = refreshToken[epoch[r]]

C7_GetterReturnsRefreshedToken ==
    [][\A c \in RefreshIds :
          (refreshStatus[c] = "pending" /\ refreshStatus'[c] = "ok")
              => (getAccessToken' = refreshToken'[c] /\ isAuthenticated')]_vars

\* ------------------------------------------------------------------- C8
\* C8: in the state the response interceptor leaves behind when the refresh
\* call failed, the getter returns null, isAuthenticated is false, and the
\* request that triggered the refresh is rejected with the refresh error
\* without having been sent again.
C8_FailedRefreshClearsStore ==
    [][\A r \in Reqs :
          (phase[r] = "awaiting" /\ refreshStatus'[cycle[r]] = "fail")
              => /\ getAccessToken' = NoToken
                 /\ ~isAuthenticated'
                 /\ phase'[r] = "rejected"
                 /\ outcome'[r] = RefreshError
                 /\ sends'[r] = sends[r]]_vars

\* ------------------------------------------------------------------- C9
\* C9: a 401 for a request whose _retry flag is set rejects the caller's
\* promise with that 401 at once, without a refresh call, without a queue
\* entry and without another send; and no request is sent more than twice.
C9_RetriedIsNotRetriedAgain ==
    [][/\ \A r \in Reqs :
            (Answered(r) /\ retry[r] /\ received'[r] = Unauthorized)
                => /\ phase'[r] = "rejected"
                   /\ outcome'[r] = Unauthorized
                   /\ refreshCalls' = refreshCalls
                   /\ pendingQueue' = pendingQueue
                   /\ sends' = sends
       /\ \A r \in Reqs : sends'[r] <= 2]_vars

\* A replayed request was answered 401 again and rejected with it.
C9_Witness ==
    \E r \in Reqs :
        /\ Replayed(r) /\ sends[r] = 2
        /\ received[r] = Unauthorized
        /\ phase[r] = "rejected" /\ outcome[r] = Unauthorized

\* ------------------------------------------------------------------ C10
\* C10: a response with a status other than 401, and a network error with
\* no response, reach the caller as they are (the response resolves the
\* promise, the error rejects it), and the step changes neither the _retry
\* flags, the refresh calls, isRefreshing, the queue, the Token Store nor
\* what was sent.
C10_Non401PassesThrough ==
    [][\A r \in Reqs :
          (Answered(r) /\ received'[r] # Unauthorized)
              => /\ outcome'[r] = received'[r]
                 /\ phase'[r] = (IF received'[r] = Ok THEN "resolved" ELSE "rejected")
                 /\ retry' = retry
                 /\ refreshCalls' = refreshCalls
                 /\ refreshInFlight' = refreshInFlight
                 /\ isRefreshing' = isRefreshing
                 /\ pendingQueue' = pendingQueue
                 /\ accessTokenState' = accessTokenState
                 /\ getAccessToken' = getAccessToken
                 /\ isAuthenticated' = isAuthenticated
                 /\ authHeader' = authHeader
                 /\ sends' = sends]_vars

\* A server error and a network error both passed through, with a token in
\* the store that is still there.
C10_Witness ==
    /\ getAccessToken # NoToken
    /\ \E r1, r2 \in Reqs :
          /\ outcome[r1] = ServerError /\ ~retry[r1] /\ phase[r1] = "rejected"
          /\ outcome[r2] = NoResponse /\ ~retry[r2] /\ phase[r2] = "rejected"
          /\ authHeader[r1] = getAccessToken

Validated ==
    definition = "second"

\* A message is in the feedback list of the result.
InFeedback(msg) ==
    \E i \in 1..Len(result.feedback) : result.feedback[i] = msg

\* Every record of the returned requirements list with required = true has
\* met = true.
RequiredAllMet ==
    \A i \in 1..Len(result.requirements) :
        result.requirements[i].required => result.requirements[i].met

\* The rule with this id, checked on the password that was passed.
RuleCheck(id) ==
    CASE id = "length" -> Len(typed) >= policy.minLength
      [] id = "uppercase" -> \E i \in 1..Len(typed) : typed[i] \in Range(UpperLetters)
      [] id = "lowercase" -> \E i \in 1..Len(typed) : typed[i] \in Range(LowerLetters)
      [] id = "numbers" -> \E i \in 1..Len(typed) : typed[i] \in Range(Digits)
      [] id = "special" -> \E i \in 1..Len(typed) : typed[i] \in SpecialChars
      [] id = "common" -> toLowerCase(typed) \notin COMMON_PASSWORDS

\* The policy flags the rule with this id (the length rule always counts).
RuleFlagged(id) ==
    CASE id = "length" -> TRUE
      [] id = "uppercase" -> policy.requireUppercase
      [] id = "lowercase" -> policy.requireLowercase
      [] id = "numbers" -> policy.requireNumbers
      [] id = "special" -> policy.requireSpecialChars
      [] id = "common" -> policy.preventCommonPasswords

RuleIds ==
    <<"length", "uppercase", "lowercase", "numbers", "special", "common">>

\* The password that was passed has no length, character-class or
\* deny-list failure under the policy.
NoHardFailure ==
    /\ Len(typed) <= policy.maxLength
    /\ \A i \in 1..Len(RuleIds) : RuleFlagged(RuleIds[i]) => RuleCheck(RuleIds[i])

\* The heuristic weakness checks that match the password that was passed.
WarningsMatched ==
    {m \in Warnings :
        \/ m = MsgSequence /\ TestRuns(CommonSequences, typed)
        \/ m = MsgRepeated /\ TestRepeated(typed)
        \/ m = MsgKeyboard /\ TestRuns(KeyboardRuns, typed)}

\* ------------------------------------------------------------------ C12
\* C12 (as stated): for every policy and password, isValid is true if and
\* only if every record of the returned requirements list with required =
\* true has met = true.
C12_ValidIffRequirementsMet ==
    Validated => (result.isValid <=> RequiredAllMet)

\* C12 (amended): isValid is true if and only if every record of the
\* returned requirements list with required = true has met = true and the
\* password is not longer than maxLength.
C12_ValidIffMetAndNotTooLong ==
    Validated =>
        (result.isValid <=> (RequiredAllMet /\ Len(typed) <= policy.maxLength))

\* Valid under a policy that flags every rule: all six records returned,
\* all met.
C12_Witness ==
    /\ Validated
    /\ result.isValid
    /\ Len(result.requirements) = Len(RuleIds)
    /\ RequiredAllMet

\* ------------------------------------------------------------------ C13
\* C13: for every policy, evaluating the empty password returns isValid =
\* false, score = 0, strength = "invalid" and a feedback list holding
\* exactly the "required" message.
C13_EmptyPasswordIsInvalid ==
    (definition # "none" /\ typed = <<>>) =>
        /\ ~result.isValid
        /\ result.score = 0
        /\ result.strength = "invalid"
        /\ result.feedback = <<MsgRequired>>

\* ------------------------------------------------------------------ C14
\* C14: each heuristic weakness check that matches (sequence, repeated
\* characters, keyboard run) appends its warning and lowers the score, and
\* none makes isValid false: a password with no length, character-class or
\* deny-list failure is valid whatever warnings it collects.
C14_WarningsNeverInvalidate ==
    (Validated /\ typed # <<>>) =>
        /\ \A m \in Warnings : InFeedback(m) <=> m \in WarningsMatched
        /\ result.score <= 100 - 10 * Cardinality(WarningsMatched)
        /\ NoHardFailure => result.isValid

\* A valid password that collected all three warnings.
C14_Witness ==
    /\ Validated
    /\ result.isValid
    /\ \A m \in Warnings : InFeedback(m)

\* ------------------------------------------------------------------ C15
\* C15: the score returned by validatePasswordStrength is never negative,
\* for every password and every policy.
C15_ScoreNeverNegative ==
    definition # "none" => result.score >= 0

\* ------------------------------------------------------------------ C16
\* C16: for every non-empty password the strength follows from the score:
\* 80 and more very-strong, 60..79 strong, 40..59 medium, 20..39 weak, below
\* 20 very-weak.
C16_StrengthFromScore ==
    (definition # "none" /\ typed # <<>>) =>
        result.strength =
            (IF result.score >= 80 THEN "very-strong"
             ELSE IF result.score >= 60 THEN "strong"
             ELSE IF result.score >= 40 THEN "medium"
             ELSE IF result.score >= 20 THEN "weak"
             ELSE "very-weak")

\* ------------------------------------------------------------------ C17
\* C17: the feedback list of a result is never empty; for a password with
\* no hard failure and no matching warning it is exactly the success
\* message, and the success message never stands next to another message.
C17_FeedbackNeverEmpty ==
    Validated =>
        /\ Len(result.feedback) > 0
        /\ typed # <<>> =>
              ((NoHardFailure /\ WarningsMatched = {}) <=> result.feedback = <<MsgSuccess>>)
        /\ InFeedback(MsgSuccess) => Len(result.feedback) = 1

\* A password that passed every rule and matched no pattern.
C17_Witness ==
    /\ Validated
    /\ result.isValid
    /\ result.feedback = <<MsgSuccess>>

\* ------------------------------------------------------------------ C18
\* C18: the requirements list holds the length record and one record for
\* each rule the policy flags, none for a rule it does not flag, in the
\* fixed order length, uppercase, lowercase, numbers, special, common, each
\* with met equal to the rule's check on the password; valid or not.
C18_RequirementsFollowPolicy ==
    Validated =>
        LET reqs == result.requirements
        IN /\ [i \in 1..Len(reqs) |-> reqs[i].id] = SelectSeq(RuleIds, RuleFlagged)
           /\ \A i \in 1..Len(reqs) :
                 reqs[i].required /\ (reqs[i].met <=> RuleCheck(reqs[i].id))

\* An invalid result under a policy that flags some rules and not others,
\* with a met and an unmet record.
C18_Witness ==
    /\ Validated
    /\ ~result.isValid
    /\ Len(result.requirements) \in 2..(Len(RuleIds) - 1)
    /\ \E i, j \in 1..Len(result.requirements) :
          result.requirements[i].met /\ ~result.requirements[j].met

\* ------------------------------------------------------------------ C19
\* C19: with preventCommonPasswords set, a password whose lower-cased form
\* is on the deny-list fails whatever its letter case: isValid is false,
\* the too-common message is in the feedback, and the score is the score
\* without the flag less 20, then clamped at 0.  Without the flag, being on
\* the deny-list adds no message and does not decide isValid.
C19_DenyListIsCaseInsensitive ==
    (Validated /\ typed # <<>> /\ toLowerCase(typed) \in COMMON_PASSWORDS) =>
        LET unflagged == validatePasswordStrength(
                             typed, [policy EXCEPT !.preventCommonPasswords = FALSE])
        IN IF policy.preventCommonPasswords
             THEN /\ ~result.isValid
                  /\ InFeedback(MsgCommon)
                  /\ result.score = (IF unflagged.score < 20 THEN 0 ELSE unflagged.score - 20)
             ELSE /\ ~InFeedback(MsgCommon)
                  /\ result.isValid <=> NoHardFailure
                  /\ result = unflagged

\* A deny-listed word written with an uppercase letter was rejected.
C19_Witness ==
    /\ Validated
    /\ policy.preventCommonPasswords
    /\ toLowerCase(typed) \in COMMON_PASSWORDS
    /\ typed # toLowerCase(typed)
    /\ ~result.isValid
    /\ InFeedback(MsgCommon)

\* ------------------------------------------------------------------ C20
\* C20: for every requested length n >= 4 and every outcome of the random
\* source, generateSecurePassword returns a string of exactly n characters
\* with at least one uppercase letter, one lowercase letter, one digit and
\* one special character.
C20_GeneratedHasLengthAndClasses ==
    generator # "none" =>
        /\ Len(generated) = requested
        /\ \E i \in 1..Len(generated) : generated[i] \in Range(UpperLetters)
        /\ \E i \in 1..Len(generated) : generated[i] \in Range(LowerLetters)
        /\ \E i \in 1..Len(generated) : generated[i] \in Range(Digits)
        /\ \E i \in 1..Len(generated) :
              generated[i] \in Range(SpecialPool) \cup Range(SymbolsPoolFirst)

\* ------------------------------------------------------------------ C21
\* C21: every password generateSecurePassword returns is reported by
\* validatePasswordStrength, under the default policy, as meeting the
\* uppercase, lowercase, numbers and special requirements, for every outcome
\* of the random source.
C21_GeneratedMeetsClassRequirements ==
    generator = "second" =>
        LET reqs == validatePasswordStrength(generated, DEFAULT_PASSWORD_REQUIREMENTS).requirements
        IN \A i \in 1..Len(reqs) :
              reqs[i].id \in {"uppercase", "lowercase", "numbers", "special"} => reqs[i].met

\* ------------------------------------------------------------------ C25
\* C25: the string generateSecurePassword returns is what a Fisher-Yates
\* pass, drawing its indices j in 0..i from the random source that picked the
\* characters, makes of the characters chosen before it; it has their length
\* and holds every character as often as they do.
C25_ShuffleIsFisherYates ==
    generator # "none" =>
        /\ generated = Shuffle(chosen, Len(chosen) - 1, seed, Len(chosen))
        /\ Len(generated) = Len(chosen)
        /\ \A c \in Range(chosen) \cup Range(generated) :
              Count(generated, c) = Count(chosen, c)

\* ------------------------------------------------------------------ C22
\* C22: a step changes the stored token only if it is a successful login
\* (which stores the token the backend issued), a refresh call returning
\* (which stores the token it returned), a refresh call failing (which
\* stores null) or a logout (which stores null and touches nothing else).  A
\* step that hands a caller a response or an error without starting a
\* refresh (a non-401 response, a network error, a 401 on an already retried
\* request) and a step that queues a request behind the pending refresh
\* leave it unchanged; a render only shows the value that was stored.
C22_TokenChangesOnlyInFourSteps ==
    [][ /\ accessTokenState' # accessTokenState =>
              \/ /\ tokensIssued' = tokensIssued + 1
                 /\ refreshStatus' = refreshStatus
                 /\ accessTokenState' = tokensIssued'
              \/ \E c \in RefreshIds :
                    /\ refreshStatus[c] = "pending" /\ refreshStatus'[c] = "ok"
                    /\ accessTokenState' = refreshToken'[c]
              \/ \E c \in RefreshIds :
                    /\ refreshStatus[c] = "pending" /\ refreshStatus'[c] = "fail"
                    /\ accessTokenState' = NoToken
              \/ /\ accessTokenState' = NoToken
                 /\ UNCHANGED <<backendVars, pipeVars, reqVars>>
        /\ \A r \in Reqs :
              Answered(r) /\ phase'[r] \in {"resolved", "rejected", "queued"} =>
                  accessTokenState' = accessTokenState
        /\ accessToken' # accessToken =>
              accessToken' = accessTokenState /\ accessTokenState' = accessTokenState
      ]_vars

\* A login stored a token, a request got a 500 which left it alone, and a
\* failed refresh cleared it.
C22_Witness ==
    /\ tokensIssued >= 1
    /\ accessTokenState = NoToken
    /\ \E c \in RefreshIds : refreshStatus[c] = "fail"
    /\ \E r \in Reqs : outcome[r] = ServerError /\ authHeader[r] # NoToken

\* ------------------------------------------------------------------ C23
\* C23: a queued request leaves the queue only in the step in which the
\* refresh call it waits for settles; and when every refresh call returns,
\* every queued request is eventually settled and a raised isRefreshing is
\* eventually lowered, whether the refresh call returned a token or failed.
C23_QueuedSettledWhenRefreshSettles ==
    /\ [][ \A r \in Reqs :
              phase[r] = "queued" /\ phase'[r] # "queued" =>
                  /\ refreshStatus[cycle[r]] = "pending"
                  /\ refreshStatus'[cycle[r]] \in {"ok", "fail"} ]_vars
    /\ \A r \in Reqs :
          (phase[r] = "queued") ~> (phase[r] # "queued" /\ CycleSettled(r))
    /\ \A c \in RefreshIds :
          (refreshStatus[c] = "pending") ~>
              (refreshStatus[c] \in {"ok", "fail"} /\ ~isRefreshing)

\* A queued request was replayed after the refresh returned, another was
\* rejected after its refresh failed, and the pipeline is idle again.
C23_Witness ==
    /\ ~isRefreshing
    /\ \E r \in Reqs :
          /\ role[r] = "queued" /\ phase[r] # "queued"
          /\ resolveCalls[r] + rejectCalls[r] = 1
          /\ CycleSettled(r)

\* ------------------------------------------------------------------ C24
\* C24: the step in which a refresh call fails makes no other refresh call,
\* leaves none pending, lowers isRefreshing, empties the queue and rejects
\* every request of its cycle with the error of the refresh, without sending
\* it again; a request of a failed cycle stays rejected and is never sent
\* again; and a refresh call is made only for the first 401 of a request,
\* one call per request that started a cycle.
C24_RefreshFailureIsTerminal ==
    [][ /\ \A c \in RefreshIds :
              refreshStatus[c] = "pending" /\ refreshStatus'[c] = "fail" =>
                  /\ refreshCalls' = refreshCalls
                  /\ refreshInFlight' = 0
                  /\ ~isRefreshing'
                  /\ pendingQueue' = <<>>
                  /\ \A r \in Reqs :
                        cycle[r] = c =>
                            /\ phase'[r] = "rejected"
                            /\ outcome'[r] = RefreshError
                            /\ sends'[r] = sends[r]
        /\ \A r \in Reqs :
              Handled(r) /\ refreshStatus[cycle[r]] = "fail" =>
                  phase'[r] = "rejected" /\ sends'[r] = sends[r]
        /\ refreshCalls' # refreshCalls =>
              /\ refreshCalls' = refreshCalls + 1
              /\ \E r \in Reqs :
                    /\ Answered(r) /\ received'[r] = Unauthorized
                    /\ role'[r] = "trigger" /\ cycle'[r] = refreshCalls'
        /\ refreshCalls' = Cardinality({r \in Reqs : role'[r] = "trigger"})
      ]_vars

\* The only refresh call made has failed and every request was rejected
\* with its error, after having been sent once.
C24_Witness ==
    /\ refreshCalls = 1
    /\ refreshStatus[1] = "fail"
    /\ \A r \in Reqs : outcome[r] = RefreshError /\ sends[r] = 1

\* ------------------------------------------------------------------ C27
\* C27: whenever pendingQueue holds an entry, isRefreshing is true.
C27_QueueNonEmptyOnlyWhileRefreshing ==
    pendingQueue # <<>> => isRefreshing

\* A request waits in the queue.
C27_Witness ==
    Len(pendingQueue) >= 1 /\ isRefreshing

\* ------------------------------------------------------------------ C28
\* C28: from a logout until the next successful login the stored token is
\* null, whatever else happens in between, a refresh call that was pending
\* at the logout returning a token included.
C28_TokenStaysNullAfterLogout ==
    loggedOut => accessTokenState = NoToken

\* ------------------------------------------------------------------ C26
\* C26: the code the verify-email page holds is always made of decimal
\* digits and at most 4 long; every call of AuthService.verifyEmail passes
\* the code held, which then is exactly 4 digits; and a submit while the
\* code is not 4 long sets the error message and makes no call.
C26_CodeIsFourDigitsWhenSent ==
    /\ [](/\ Len(code) <= CodeLength
          /\ \A i \in 1..Len(code) : IsDigit(code[i])
          /\ verifyCalls > 0 =>
                /\ Len(verifyArg) = CodeLength
                /\ \A i \in 1..Len(verifyArg) : IsDigit(verifyArg[i]))
    /\ [][ /\ verifyCalls' # verifyCalls =>
                  /\ submitted'
                  /\ Len(code) = CodeLength
                  /\ verifyArg' = code
          /\ submitted' /\ Len(code) # CodeLength =>
                  /\ codeError' = MsgEnterCode
                  /\ verifyCalls' = verifyCalls
                  /\ verifyPending' = verifyPending
                  /\ isLoading' = isLoading ]_vars

\* A short code was submitted and refused, and a call was made earlier with
\* four digits.
C26_Witness ==
    /\ submitted
    /\ Len(code) \in 1..(CodeLength - 1)
    /\ codeError = MsgEnterCode
    /\ verifyCalls = 1
    /\ Len(verifyArg) = CodeLength

\* ------------------------------------------------------------------ C29
\* C29: whenever usePasswordForm returns canSubmit = true, the password it
\* was rendered with passes validatePasswordStrength under the policy of the
\* form and equals the confirmation it was rendered with.
C29_CanSubmitOnlyValidAndConfirmed ==
    canSubmit =>
        /\ validatePasswordStrength(formPassword, PASSWORD_CONFIGS(userType)).isValid
        /\ formPassword = confirmPassword

\* ------------------------------------------------------------------ C30
\* C30: a result is stored only for the password that is current when the
\* timer fires; and whenever isValidating is false, validation is null for
\* an empty or blank password and otherwise is the result of
\* validatePasswordStrength for the current password.
C30_ValidationIsOfCurrentPassword ==
    [][ /\ validation' # validation /\ validation' # NoResult =>
              validation' = validatePasswordStrength(formPassword', PASSWORD_CONFIGS(userType))
        /\ ~isValidating' =>
              validation' = IF IsBlank(formPassword') THEN NoResult
                            ELSE validatePasswordStrength(formPassword', PASSWORD_CONFIGS(userType))
      ]_vars

====
